---- MODULE Spec2Model ----
(***************************************************************************)
(* Model of the pump and thermostat accessories of homebridge-plugin-bwaspa *)
(* (src/src/pumpAccessory.ts, src/src/thermostatAccessory.ts).             *)
(*                                                                         *)
(* Every handler is a function from the state it runs on to the state it   *)
(* leaves, composed statement by statement as in the source.  The state a  *)
(* handler runs on is the record Cur: the spa's state as the plugin reads   *)
(* and writes it through platform.spa, the accessories' own fields, and    *)
(* `log`, the calls the handler makes to the outside (spa setters,          *)
(* updateValue, setProps, the HomeKit callback) in the order it makes them. *)
(* Temperatures are in tenths of a degree Celsius (26.5 is 265).           *)
(***************************************************************************)
EXTENDS Integers, Sequences, FiniteSets

VARIABLES
    pumpNumber,     \* PumpAccessory.pumpNumber, per accessory
    pumpRange,      \* accessory.context.device.pumpRange, per accessory
    speedSettings,  \* PumpAccessory.speedSettings, per accessory
    lastSpeed,      \* PumpAccessory.states.lastSpeed, per accessory
    pump,           \* spa: what get_pump1..3 return
    tempRangeIsHigh,\* spa: getTempRangeIsHigh()
    flowState,      \* spa: getFlowState()
    targetTemp,     \* spa: getTargetTemp()
    props,          \* the TargetTemperature characteristic's props
    req,            \* the request HomeKit made last
    log,            \* the calls the last request's handler made, in order
    lastWritten,    \* history: last level other than "Off" an accessory wrote
    prevWasOff      \* history: the request before req was setOn(false)

\* The request's operation comes first: the values of two requests, and of
\* their callbacks, are of one kind only when the operations are the same.
vars == <<req.op, req, log, pumpNumber, pumpRange,
          speedSettings, lastSpeed, pump, tempRangeIsHigh, flowState,
          targetTemp, props, lastWritten, prevWasOff>>

----------------------------------------------------------------------------
(* Bounds and input sets *)

\* pumpNumber is drawn from 1..MaxPumpNumber: 1..3 are the spa's pumps, the
\* rest are numbers the accessory does not recognise.
MaxPumpNumber == 4
\* pumpRange is drawn from 1..MaxPumpRange: 1 and 2 are the ranges the
\* constructor accepts, the rest are the ones it replaces.
MaxPumpRange == 3
\* Requested target temperatures run from TempMargin steps of 0.5 below the
\* advertised 10.0 to TempMargin steps above the advertised 40.0.
TempMargin == 2

\* Where the pumps and the thermostat run together, percentages divide 0..100
\* into PercentSteps equal steps and temperatures divide 10.0..40.0 into
\* TempSteps equal steps.
PercentSteps == 2
TempSteps == 3

SpaPumps == {1, 2, 3}
PumpNumbers == 1..MaxPumpNumber
PumpRanges == 1..MaxPumpRange
\* HomeKit's RotationSpeed is a percentage.
Percents == 0..100
Levels == {"Off", "Low", "High"}
\* The grid of 0.5 degrees, in tenths of a degree.
Grid(lo, hi) == {t \in lo..hi : t % 5 = 0}
TempRequests == Grid(100 - 5 * TempMargin, 400 + 5 * TempMargin)
\* The target temperatures the spa itself holds to in each range.
SpaTemps(high) == IF high THEN Grid(265, 400) ELSE Grid(100, 360)
\* The coarser inputs of the specification of all accessories together.
StridePercents == {(100 * k) \div PercentSteps : k \in 0..PercentSteps}
StrideTemps == {100 + 5 * ((60 * k) \div TempSteps) : k \in 0..TempSteps}
\* TargetHeatingCoolingState's validValues [0,1,2].
HeatingStates == {"OFF", "HEAT", "COOL"}
FLOW_GOOD == "Good"
FLOW_FAILED == "Failed"
\* spaClient's flow states; the accessory tests for Good and Failed only.
FlowStates == {FLOW_GOOD, "Low", FLOW_FAILED}

----------------------------------------------------------------------------
(* PumpAccessory *)

speeds == <<"Off", "Low", "High">>

\* this.speeds[i]: JavaScript arrays count from 0 and give undefined outside.
speedsAt(i) ==
    IF i \in 0..(Len(speeds) - 1) THEN speeds[i + 1] ELSE "undefined"

\* this.speeds.indexOf(x): -1 when x is not in the array.
indexOf(x) ==
    IF \E i \in 1..Len(speeds) : speeds[i] = x
    THEN (CHOOSE i \in 1..Len(speeds) : speeds[i] = x) - 1
    ELSE -1

\* Mutant: a tie goes down.
MathRound_tieDown(num, den) == (2 * num + den - 1) \div (2 * den)

\* Math.round(num/den) for den > 0: the nearest integer, a tie going up.
MathRound(num, den) == (2 * num + den) \div (2 * den)

\* Mutant: pumpRange is taken as it is.
initSpeedSettings_unchecked(range) == range

\* The constructor's check of pumpRange.
initSpeedSettings(range) ==
    IF range # 1 /\ range # 2 THEN 1 ELSE range

\* The state a handler starts on.
Cur == [pump            |-> pump,
        lastSpeed       |-> lastSpeed,
        tempRangeIsHigh |-> tempRangeIsHigh,
        flowState       |-> flowState,
        targetTemp      |-> targetTemp,
        props           |-> props,
        log             |-> <<>>]

Emit(st, e) == [st EXCEPT !.log = Append(@, e)]

\* platform.spa.set_pumpN(level): the spa holds the level.
set_pump(st, n, level) ==
    Emit([st EXCEPT !.pump[n] = level],
         [ev |-> "set_pump", n |-> n, value |-> level])

\* platform.spa.get_pumpN()
get_pump(st, n) == st.pump[n]

\* callback(err) and callback(err, value); err is "null" or the Error's text.
callback(st, err, value) ==
    Emit(st, [ev |-> "callback", err |-> err, value |-> value])

\* Mutant: every accessory reads pump 1.
getSpeed_pump1(st, c) ==
    IF pumpNumber[c] \in {1, 2, 3} THEN indexOf(get_pump(st, 1)) ELSE 0

getSpeed(st, c) ==
    IF pumpNumber[c] = 1 THEN indexOf(get_pump(st, 1))
    ELSE IF pumpNumber[c] = 2 THEN indexOf(get_pump(st, 2))
    ELSE IF pumpNumber[c] = 3 THEN indexOf(get_pump(st, 3))
    ELSE 0

\* Mutant: the speed is remembered when it is 0 too.
setSpeed_keepsOff(st, c, speed) ==
    LET s1 == IF pumpNumber[c] = 1 THEN set_pump(st, 1, speedsAt(speed))
              ELSE IF pumpNumber[c] = 2 THEN set_pump(st, 2, speedsAt(speed))
              ELSE IF pumpNumber[c] = 3 THEN set_pump(st, 3, speedsAt(speed))
              ELSE st
    IN  [s1 EXCEPT !.lastSpeed[c] = speed]

\* Mutant: pump 2's accessory writes to pump 1.
setSpeed_wrongPump(st, c, speed) ==
    LET s1 == IF pumpNumber[c] = 1 THEN set_pump(st, 1, speedsAt(speed))
              ELSE IF pumpNumber[c] = 2 THEN set_pump(st, 1, speedsAt(speed))
              ELSE IF pumpNumber[c] = 3 THEN set_pump(st, 3, speedsAt(speed))
              ELSE st
    IN  IF speed # 0 THEN [s1 EXCEPT !.lastSpeed[c] = speed] ELSE s1

setSpeed(st, c, speed) ==
    LET s1 == IF pumpNumber[c] = 1 THEN set_pump(st, 1, speedsAt(speed))
              ELSE IF pumpNumber[c] = 2 THEN set_pump(st, 2, speedsAt(speed))
              ELSE IF pumpNumber[c] = 3 THEN set_pump(st, 3, speedsAt(speed))
              ELSE st
    IN  IF speed # 0 THEN [s1 EXCEPT !.lastSpeed[c] = speed] ELSE s1

\* Mutant: the last speed is set whatever the value.
setOn_alwaysLast(st, c, value) ==
    callback(setSpeed(st, c, st.lastSpeed[c]), "null", "none")

setOn(st, c, value) ==
    LET s1 == IF value THEN setSpeed(st, c, st.lastSpeed[c])
              ELSE setSpeed(st, c, 0)
    IN  callback(s1, "null", "none")

getOn(st, c) ==
    LET isOn == getSpeed(st, c) # 0
    IN  callback(st, "null", isOn)

\* Mutant: the step is cut off, not rounded.
setRotationSpeed_truncates(st, c, value) ==
    LET speed == (value * speedSettings[c]) \div 100
    IN  callback(setSpeed(st, c, speed), "null", "none")

setRotationSpeed(st, c, value) ==
    LET speed == MathRound(value * speedSettings[c], 100)
    IN  callback(setSpeed(st, c, speed), "null", "none")

\* (100.0*speed)/speedSettings is a whole number for speedSettings 1 and 2.
getRotationSpeed(st, c) ==
    LET speed == getSpeed(st, c)
        value == (100 * speed) \div speedSettings[c]
    IN  callback(st, "null", value)

----------------------------------------------------------------------------
(* ThermostatAccessory *)

spa_getTempRangeIsHigh(st) == st.tempRangeIsHigh
spa_getFlowState(st) == st.flowState
spa_getTargetTemp(st) == st.targetTemp

\* platform.spa.setTempRangeIsHigh(high): the spa switches range, and on a
\* switch moves its target temperature to adj, the one it keeps for that range.
spa_setTempRangeIsHigh(st, high, adj) ==
    Emit([st EXCEPT !.tempRangeIsHigh = high,
                    !.targetTemp = IF high # st.tempRangeIsHigh THEN adj ELSE @],
         [ev |-> "setTempRangeIsHigh", value |-> high])

\* platform.spa.setTargetTemperature(temp): the spa holds the temperature.
spa_setTargetTemperature(st, temp) ==
    Emit([st EXCEPT !.targetTemp = temp],
         [ev |-> "setTargetTemperature", value |-> temp])

\* getCharacteristic(TargetTemperature).updateValue(v)
updateValue(st, v) == Emit(st, [ev |-> "updateValue", value |-> v])

\* Mutant: the range of the spa's current mode is advertised.
setTargetTempMinMax_byMode(st) ==
    LET p == IF st.tempRangeIsHigh
             THEN [minValue |-> 265, maxValue |-> 400, minStep |-> 5]
             ELSE [minValue |-> 100, maxValue |-> 360, minStep |-> 5]
    IN  Emit([st EXCEPT !.props = p], [ev |-> "setProps", value |-> p])

setTargetTempMinMax(st) ==
    LET p == [minValue |-> 100, maxValue |-> 400, minStep |-> 5]
    IN  Emit([st EXCEPT !.props = p], [ev |-> "setProps", value |-> p])

\* Mutant: the flow state is not looked at.
getTargetHeatingState_ignoresFlow(st) ==
    LET mode == spa_getTempRangeIsHigh(st)
    IN  callback(st, "null", IF mode THEN "HEAT" ELSE "COOL")

getTargetHeatingState(st) ==
    LET mode == spa_getTempRangeIsHigh(st)
        flowError == (spa_getFlowState(st) = FLOW_FAILED)
        result == IF flowError THEN "OFF"
                  ELSE IF mode THEN "HEAT" ELSE "COOL"
    IN  callback(st, "null", result)

\* Mutant: the target temperature is read before the range is written.
setTargetHeatingState_accept_readsFirst(st, value, adj) ==
    LET heating == (value = "HEAT")
        temp == spa_getTargetTemp(st)
        s1 == spa_setTempRangeIsHigh(st, heating, adj)
        s2 == setTargetTempMinMax(s1)
        s3 == updateValue(s2, temp)
    IN  callback(s3, "null", "none")

\* Mutant: Off is taken for the high range.
setTargetHeatingState_accept_offIsHigh(st, value, adj) ==
    LET heating == (value # "COOL")
        s1 == spa_setTempRangeIsHigh(st, heating, adj)
        s2 == setTargetTempMinMax(s1)
        s3 == updateValue(s2, spa_getTargetTemp(s2))
    IN  callback(s3, "null", "none")

\* Mutant: Cool is taken for the high range.
setTargetHeatingState_accept_coolIsHigh(st, value, adj) ==
    LET heating == (value # "OFF")
        s1 == spa_setTempRangeIsHigh(st, heating, adj)
        s2 == setTargetTempMinMax(s1)
        s3 == updateValue(s2, spa_getTargetTemp(s2))
    IN  callback(s3, "null", "none")

\* The statements after the two rejections.
setTargetHeatingState_accept(st, value, adj) ==
    LET heating == (value = "HEAT")
        s1 == spa_setTempRangeIsHigh(st, heating, adj)
        s2 == setTargetTempMinMax(s1)
        s3 == updateValue(s2, spa_getTargetTemp(s2))
    IN  callback(s3, "null", "none")

\* Mutant: Off with a good flow is taken as Cool, not rejected.
setTargetHeatingState_revertsToCool(st, value, adj) ==
    IF value = "OFF"
    THEN setTargetHeatingState_accept(st, value, adj)
    ELSE IF spa_getFlowState(st) = FLOW_FAILED
         THEN callback(st, "Water flow has failed. Heating off", "none")
         ELSE setTargetHeatingState_accept(st, value, adj)

\* Mutant: Heat and Cool are taken whatever the flow.
setTargetHeatingState_ignoresFailure(st, value, adj) ==
    IF value = "OFF"
    THEN IF spa_getFlowState(st) = FLOW_GOOD
         THEN callback(st, "Spa doesn't allow turned heating off. Reverting.",
                       "none")
         ELSE setTargetHeatingState_accept(st, value, adj)
    ELSE setTargetHeatingState_accept(st, value, adj)

setTargetHeatingState(st, value, adj) ==
    IF value = "OFF"
    THEN IF spa_getFlowState(st) = FLOW_GOOD
         THEN callback(st, "Spa doesn't allow turned heating off. Reverting.",
                       "none")
         ELSE setTargetHeatingState_accept(st, value, adj)
    ELSE IF spa_getFlowState(st) = FLOW_FAILED
         THEN callback(st, "Water flow has failed. Heating off", "none")
         ELSE setTargetHeatingState_accept(st, value, adj)

getTargetTemperature(st) ==
    LET temperature == spa_getTargetTemp(st)
    IN  callback(st, "null", temperature)

\* The statements after the two rejections.
setTargetTemperature_accept(st, temp) ==
    callback(spa_setTargetTemperature(st, temp), "null", "none")

\* Mutant: the clamped temperature is written and the request succeeds.
setTargetTemperature_writesClamped(st, value) ==
    IF spa_getTempRangeIsHigh(st)
    THEN setTargetTemperature_accept(st, IF value < 265 THEN 265 ELSE value)
    ELSE setTargetTemperature_accept(st, IF value > 360 THEN 360 ELSE value)

\* Mutant: the bounds themselves are rejected.
setTargetTemperature_strictBounds(st, value) ==
    IF spa_getTempRangeIsHigh(st)
    THEN IF value <= 265
         THEN callback(updateValue(st, 265),
                       "Temperature out of bounds [26.5,40.0]", "none")
         ELSE setTargetTemperature_accept(st, value)
    ELSE IF value >= 360
         THEN callback(updateValue(st, 360),
                       "Temperature out of bounds [10.0,36.0]", "none")
         ELSE setTargetTemperature_accept(st, value)

\* Mutant: the low range is not checked.
setTargetTemperature_highOnly(st, value) ==
    IF spa_getTempRangeIsHigh(st)
    THEN IF value < 265
         THEN callback(updateValue(st, 265),
                       "Temperature out of bounds [26.5,40.0]", "none")
         ELSE setTargetTemperature_accept(st, value)
    ELSE setTargetTemperature_accept(st, value)

\* Mutant: no return after a rejection.
setTargetTemperature_noReturn(st, value) ==
    IF spa_getTempRangeIsHigh(st)
    THEN IF value < 265
         THEN setTargetTemperature_accept(
                  callback(updateValue(st, 265),
                           "Temperature out of bounds [26.5,40.0]", "none"),
                  value)
         ELSE setTargetTemperature_accept(st, value)
    ELSE IF value > 360
         THEN setTargetTemperature_accept(
                  callback(updateValue(st, 360),
                           "Temperature out of bounds [10.0,36.0]", "none"),
                  value)
         ELSE setTargetTemperature_accept(st, value)

setTargetTemperature(st, value) ==
    IF spa_getTempRangeIsHigh(st)
    THEN IF value < 265
         THEN callback(updateValue(st, 265),
                       "Temperature out of bounds [26.5,40.0]", "none")
         ELSE setTargetTemperature_accept(st, value)
    ELSE IF value > 360
         THEN callback(updateValue(st, 360),
                       "Temperature out of bounds [10.0,36.0]", "none")
         ELSE setTargetTemperature_accept(st, value)

----------------------------------------------------------------------------
(* What a handler's caller sees *)

\* The callbacks a handler made.
Callbacks(st) == SelectSeq(st.log, LAMBDA e : e.ev = "callback")

\* The value handed to the (first) callback.
Returned(st) == Callbacks(st)[1].value

\* The levels accessory c's handler wrote to the spa that are not "Off".
NonOffWrites(l) ==
    SelectSeq(l, LAMBDA e : e.ev = "set_pump" /\ e.value # "Off")

\* The handler's result becomes the next state; r is the request.
Commit(st, r) ==
    /\ pump' = st.pump
    /\ lastSpeed' = st.lastSpeed
    /\ tempRangeIsHigh' = st.tempRangeIsHigh
    /\ flowState' = st.flowState
    /\ targetTemp' = st.targetTemp
    /\ props' = st.props
    /\ log' = st.log
    /\ req' = r
    /\ prevWasOff' = (req.op = "setOn" /\ req.value = FALSE)
    /\ lastWritten' =
         IF r.ctrl \in DOMAIN lastWritten /\ NonOffWrites(st.log) # <<>>
         THEN [lastWritten EXCEPT
                 ![r.ctrl] = NonOffWrites(st.log)[Len(NonOffWrites(st.log))].value]
         ELSE lastWritten
    /\ UNCHANGED <<pumpNumber, pumpRange, speedSettings>>

Pumps == DOMAIN pumpNumber

SetOn ==
    \E c \in Pumps, value \in BOOLEAN :
        Commit(setOn(Cur, c, value),
               [op |-> "setOn", ctrl |-> c, value |-> value])

GetOn ==
    \E c \in Pumps :
        Commit(getOn(Cur, c), [op |-> "getOn", ctrl |-> c, value |-> "none"])

SetRotationSpeed ==
    \E c \in Pumps, value \in Percents :
        Commit(setRotationSpeed(Cur, c, value),
               [op |-> "setRotationSpeed", ctrl |-> c, value |-> value])

GetRotationSpeed ==
    \E c \in Pumps :
        Commit(getRotationSpeed(Cur, c),
               [op |-> "getRotationSpeed", ctrl |-> c, value |-> "none"])

\* The spa reports a new level of a pump: someone used the topside panel.
SpaPumpChanges ==
    \E n \in SpaPumps, level \in Levels :
        /\ pump[n] # level
        /\ Commit([Cur EXCEPT !.pump[n] = level],
                  [op |-> "spa", ctrl |-> 0, value |-> "none"])

GetTargetHeatingState ==
    Commit(getTargetHeatingState(Cur),
           [op |-> "getTargetHeatingState", ctrl |-> 0, value |-> "none"])

SetTargetHeatingState ==
    \E value \in HeatingStates : \E adj \in SpaTemps(value = "HEAT") :
        Commit(setTargetHeatingState(Cur, value, adj),
               [op |-> "setTargetHeatingState", ctrl |-> 0, value |-> value])

GetTargetTemperature ==
    Commit(getTargetTemperature(Cur),
           [op |-> "getTargetTemperature", ctrl |-> 0, value |-> "none"])

SetTargetTemperature ==
    \E value \in TempRequests :
        Commit(setTargetTemperature(Cur, value),
               [op |-> "setTargetTemperature", ctrl |-> 0, value |-> value])

\* The spa reports another flow state.
SpaFlowChanges ==
    \E f \in FlowStates :
        /\ flowState # f
        /\ Commit([Cur EXCEPT !.flowState = f],
                  [op |-> "spa", ctrl |-> 0, value |-> "none"])

----------------------------------------------------------------------------
(* Initial states *)

\* The pump accessories in C, as their constructors leave them.
InitPumps(C) ==
    /\ pumpNumber \in [C -> PumpNumbers]
    /\ pumpRange \in [C -> PumpRanges]
    /\ speedSettings = [c \in C |-> initSpeedSettings(pumpRange[c])]
    /\ lastSpeed = [c \in C |-> 2]
    /\ lastWritten = [c \in C |-> "none"]

InitRequest ==
    /\ req = [op |-> "constructor", ctrl |-> 0, value |-> "none"]
    /\ prevWasOff = FALSE
    /\ log = <<>>

\* The characteristic before the constructor's call of setTargetTempMinMax.
Unregistered ==
    [props |-> "default", tempRangeIsHigh |-> tempRangeIsHigh, log |-> <<>>]

\* A spa at rest, for the specification that exercises the pumps alone.
ThermostatAtRest ==
    /\ tempRangeIsHigh = TRUE
    /\ flowState = "Good"
    /\ targetTemp = 380
    /\ props = setTargetTempMinMax(Unregistered).props

\* The thermostat accessory as its constructor leaves it, on a spa in either
\* range and any flow state, holding a target temperature of its range.
InitThermostat ==
    /\ tempRangeIsHigh \in BOOLEAN
    /\ flowState \in FlowStates
    /\ targetTemp \in SpaTemps(tempRangeIsHigh)
    /\ props = setTargetTempMinMax(Unregistered).props

\* The spa's pumps at any level.
InitSpaPumps == pump \in [SpaPumps -> Levels]

\* The spa's pumps off, for the specification of the thermostat alone.
PumpsAtRest == pump = [n \in SpaPumps |-> "Off"]

InitPump ==
    InitPumps({1}) /\ InitSpaPumps /\ ThermostatAtRest /\ InitRequest

NextPump ==
    \/ SetOn
    \/ GetOn
    \/ SetRotationSpeed
    \/ GetRotationSpeed
    \/ SpaPumpChanges

\* One pump accessory, every pump number and pumpRange, every percentage.
SpecPump == InitPump /\ [][NextPump]_vars

\* No pump accessory: the thermostat alone.
InitThermostatOnly ==
    InitPumps({}) /\ PumpsAtRest /\ InitThermostat /\ InitRequest

NextThermostat ==
    \/ GetTargetHeatingState
    \/ SetTargetHeatingState
    \/ GetTargetTemperature
    \/ SetTargetTemperature
    \/ SpaFlowChanges

\* The thermostat accessory, every request on the 0.5 grid.
SpecThermostat == InitThermostatOnly /\ [][NextThermostat]_vars

----------------------------------------------------------------------------
(* All accessories together *)

SetRotationSpeedCoarse ==
    \E c \in Pumps, value \in StridePercents :
        Commit(setRotationSpeed(Cur, c, value),
               [op |-> "setRotationSpeed", ctrl |-> c, value |-> value])

SetTargetHeatingStateCoarse ==
    \E value \in HeatingStates :
        \E adj \in SpaTemps(value = "HEAT") \cap StrideTemps :
            Commit(setTargetHeatingState(Cur, value, adj),
                   [op |-> "setTargetHeatingState", ctrl |-> 0, value |-> value])

SetTargetTemperatureCoarse ==
    \E value \in StrideTemps :
        Commit(setTargetTemperature(Cur, value),
               [op |-> "setTargetTemperature", ctrl |-> 0, value |-> value])

\* One accessory per pump of the spa: pump 1 with pumpRange 1, pump 2 with
\* pumpRange 2, pump 3 with a pumpRange that is neither.
InitThreePumps ==
    /\ pumpNumber = [c \in SpaPumps |-> c]
    /\ pumpRange = [c \in SpaPumps |-> c]
    /\ speedSettings = [c \in SpaPumps |-> initSpeedSettings(pumpRange[c])]
    /\ lastSpeed = [c \in SpaPumps |-> 2]
    /\ lastWritten = [c \in SpaPumps |-> "none"]

InitThermostatCoarse ==
    /\ tempRangeIsHigh \in BOOLEAN
    /\ flowState \in FlowStates
    /\ targetTemp \in SpaTemps(tempRangeIsHigh) \cap StrideTemps
    /\ props = setTargetTempMinMax(Unregistered).props

Init == InitThreePumps /\ PumpsAtRest /\ InitThermostatCoarse /\ InitRequest

Next ==
    \/ SetOn
    \/ GetOn
    \/ SetRotationSpeedCoarse
    \/ GetRotationSpeed
    \/ GetTargetHeatingState
    \/ SetTargetHeatingStateCoarse
    \/ GetTargetTemperature
    \/ SetTargetTemperatureCoarse

\* Three pump accessories and the thermostat on one spa, HomeKit's requests
\* in any order; the flow state is any the spa can report and stays.
Spec == Init /\ [][Next]_vars

----------------------------------------------------------------------------
(* Properties of the pump accessory, under SpecPump *)

\* The accessories that drive one of the spa's pumps.
OnSpaPump(c) == pumpNumber[c] \in SpaPumps

\* What isOn() and getSpeedPercent() would hand back in the current state.
isOnNow(c) == Returned(getOn(Cur, c))
speedPercentNow(c) == Returned(getRotationSpeed(Cur, c))

\* The request handled last was accessory c's op with this value (0 stands
\* for the thermostat); the step is the handling of that request.
Handled(c, op, value) ==
    req.op = op /\ req.ctrl = c /\ req.value = value
Handles(c, op, value) ==
    req'.op = op /\ req'.ctrl = c /\ req'.value = value

\* C1: sticky memory.  Once accessory c (pump 1..3) has written a level L
\* other than Off, every turnOn() writes L again, so turnOff() followed by
\* turnOn() reproduces it; turnOff() and a setSpeedPercent that rounds to Off
\* leave the remembered level as it is.
C1_StickyMemory ==
    [][\A c \in Pumps :
         /\ (OnSpaPump(c) /\ lastWritten[c] # "none" /\ Handles(c, "setOn", TRUE))
              => pump'[pumpNumber[c]] = lastWritten[c]
         /\ Handles(c, "setOn", FALSE)
              => lastSpeed'[c] = lastSpeed[c] /\ lastWritten'[c] = lastWritten[c]
         /\ (/\ req'.op = "setRotationSpeed" /\ req'.ctrl = c
             /\ 2 * req'.value * speedSettings[c] < 100)
              => lastSpeed'[c] = lastSpeed[c] /\ lastWritten'[c] = lastWritten[c]
      ]_vars

\* A 2-speed pump set to Low, turned off, and turned on again: it is at Low.
C1_Witness ==
    \E c \in Pumps :
        /\ OnSpaPump(c) /\ speedSettings[c] = 2
        /\ Handled(c, "setOn", TRUE)
        /\ prevWasOff
        /\ lastWritten[c] = "Low"
        /\ pump[pumpNumber[c]] = "Low"

\* C2: the percent round trip.  Right after setSpeedPercent(p) on a pump with
\* s speed settings, getSpeedPercent() is 100*k/s for the whole number k
\* nearest to p*s/100 (the upper one at a tie).
C2_PercentRoundTrip ==
    \A c \in Pumps :
        (OnSpaPump(c) /\ req.op = "setRotationSpeed" /\ req.ctrl = c)
          => \E k \in 0..speedSettings[c] :
                /\ 100 * k - 50 <= req.value * speedSettings[c]
                /\ req.value * speedSettings[c] < 100 * k + 50
                /\ speedPercentNow(c) * speedSettings[c] = 100 * k

\* setSpeedPercent(30) on a 2-speed pump reads back as 50.
C2_Witness ==
    \E c \in Pumps :
        /\ OnSpaPump(c) /\ speedSettings[c] = 2
        /\ Handled(c, "setRotationSpeed", 30)
        /\ speedPercentNow(c) = 50

\* The request last handled was setSpeedPercent(50) on a 1-speed pump 1..3.
HalfOnOneSpeed(c) ==
    /\ OnSpaPump(c) /\ speedSettings[c] = 1
    /\ Handled(c, "setRotationSpeed", 50)

\* C3 as claimed: on a 1-speed pump setSpeedPercent(50) resolves to Off, and
\* afterwards isOn() is false and getSpeedPercent() is 0.
C3_HalfIsOff ==
    \A c \in Pumps :
        HalfOnOneSpeed(c)
          => /\ pump[pumpNumber[c]] = "Off"
             /\ isOnNow(c) = FALSE
             /\ speedPercentNow(c) = 0

\* C3 as the code has it: on a 1-speed pump setSpeedPercent(50) resolves to
\* step 1, not to Off (Math.round takes the tie 0.5 up): the level written is
\* not Off, and afterwards isOn() is true and getSpeedPercent() is 100.
C3_HalfIsOn ==
    \A c \in Pumps :
        HalfOnOneSpeed(c)
          => /\ pump[pumpNumber[c]] # "Off"
             /\ isOnNow(c) = TRUE
             /\ speedPercentNow(c) = 100

C3_Witness ==
    \E c \in Pumps : HalfOnOneSpeed(c) /\ log[1].ev = "set_pump"

\* C4: the percent-to-level mapping.  On a 1-speed pump setSpeedPercent(100)
\* writes High and no request writes Low; on a 2-speed pump
\* setSpeedPercent(50) writes Low and setSpeedPercent(100) writes High.
C4_PercentToLevel ==
    \A c \in Pumps :
        (OnSpaPump(c) /\ req.ctrl = c)
          => LET s == speedSettings[c]
                 set(p) == Handled(c, "setRotationSpeed", p)
                 written == pump[pumpNumber[c]]
             IN  /\ (s = 1 /\ set(100)) => written = "High"
                 /\ s = 1 => \A i \in 1..Len(log) :
                                log[i].ev = "set_pump" => log[i].value # "Low"
                 /\ (s = 2 /\ set(50)) => written = "Low"
                 /\ (s = 2 /\ set(100)) => written = "High"

\* C5: the reported percentage stays in range.  After turnOn(), turnOff() or
\* setSpeedPercent(p), getSpeedPercent() is within 0..100 and the spa's level
\* for the pump is one of the steps 0..speedSettings.
C5_PercentInRange ==
    \A c \in Pumps :
        (OnSpaPump(c) /\ req.ctrl = c /\ req.op \in {"setOn", "setRotationSpeed"})
          => /\ speedPercentNow(c) \in 0..100
             /\ indexOf(pump[pumpNumber[c]]) \in 0..speedSettings[c]

\* C6: isOn() is true exactly when the spa's level for the pump is not Off,
\* whoever set the level; and a getOn request hands back just that.
C6_IsOnIffNotOff ==
    \A c \in Pumps :
        OnSpaPump(c)
          => /\ isOnNow(c) = (pump[pumpNumber[c]] # "Off")
             /\ (req.op = "getOn" /\ req.ctrl = c)
                  => /\ Len(log) = 1
                     /\ log[1].value = (pump[pumpNumber[c]] # "Off")

\* getOn answers true for a pump the spa itself runs at Low: the accessory
\* has never written a level.
C6_Witness ==
    \E c \in Pumps :
        /\ OnSpaPump(c)
        /\ Handled(c, "getOn", "none")
        /\ lastWritten[c] = "none"
        /\ pump[pumpNumber[c]] = "Low"
        /\ log[1].value = TRUE

\* C18: the speed-setting count is always 1 or 2.  Whatever pumpRange is
\* configured, speedSettings is pumpRange when that is 1 or 2 and 1 when it
\* is anything else, at construction and after every request.
C18_SpeedSettingsOneOrTwo ==
    \A c \in Pumps :
        /\ speedSettings[c] \in {1, 2}
        /\ speedSettings[c] = (IF pumpRange[c] \in {1, 2} THEN pumpRange[c] ELSE 1)

\* A pump configured with pumpRange 3 runs as a 1-speed pump: 100% has set
\* step 1.
C18_Witness ==
    \E c \in Pumps :
        /\ OnSpaPump(c)
        /\ pumpRange[c] = 3
        /\ speedSettings[c] = 1
        /\ Handled(c, "setRotationSpeed", 100)
        /\ lastSpeed[c] = 1

\* C20: turnOn always turns the pump on.  lastSpeed is never 0, so on a pump
\* 1..3 isOn() right after turnOn() is true, and isOn() right after
\* turnOff() is false.
C20_TurnOnTurnsOn ==
    \A c \in Pumps :
        /\ lastSpeed[c] # 0
        /\ speedsAt(lastSpeed[c]) \in Levels \ {"Off"}
        /\ (OnSpaPump(c) /\ Handled(c, "setOn", TRUE)) => isOnNow(c) = TRUE
        /\ (OnSpaPump(c) /\ Handled(c, "setOn", FALSE)) => isOnNow(c) = FALSE

\* A pump last set to step 1, turned off and turned on again, is on.
C20_Witness ==
    \E c \in Pumps :
        /\ OnSpaPump(c)
        /\ Handled(c, "setOn", TRUE)
        /\ prevWasOff
        /\ lastSpeed[c] = 1
        /\ isOnNow(c) = TRUE

----------------------------------------------------------------------------
(* Properties of the thermostat accessory, under SpecThermostat *)

heatingStateNow == Returned(getTargetHeatingState(Cur))

\* The handler ended with one callback, and it carried an error.
Rejected(l) ==
    /\ Len(Callbacks([log |-> l])) = 1
    /\ Callbacks([log |-> l])[1].err # "null"
    /\ l[Len(l)].ev = "callback"

\* What the handler wrote to the spa, and what it published to HomeKit.
SpaWrites(l) ==
    SelectSeq(l, LAMBDA e : e.ev \in {"set_pump", "setTempRangeIsHigh",
                                      "setTargetTemperature"})
Published(l) ==
    SelectSeq(l, LAMBDA e : e.ev \in {"updateValue", "setProps"})

\* C7: setHeatingState(Off) while the flow is Good is rejected with an error
\* and changes nothing: not the spa's range or target temperature, and
\* nothing is published to HomeKit.
C7_OffRejectedWhenFlowGood ==
    [][(Handles(0, "setTargetHeatingState", "OFF") /\ flowState = FLOW_GOOD)
         => /\ Rejected(log')
            /\ tempRangeIsHigh' = tempRangeIsHigh
            /\ targetTemp' = targetTemp
            /\ props' = props
            /\ SpaWrites(log') = <<>>
            /\ Published(log') = <<>>
      ]_vars

C7_Witness ==
    /\ Handled(0, "setTargetHeatingState", "OFF")
    /\ flowState = FLOW_GOOD
    /\ tempRangeIsHigh
    /\ Rejected(log)

\* C8: setHeatingState(Heat) and setHeatingState(Cool) while the flow has
\* Failed are rejected with an error and leave the spa's range as it is.
C8_HeatCoolRejectedWhenFlowFailed ==
    [][\A value \in {"HEAT", "COOL"} :
         (Handles(0, "setTargetHeatingState", value) /\ flowState = FLOW_FAILED)
           => /\ Rejected(log')
              /\ tempRangeIsHigh' = tempRangeIsHigh
      ]_vars

\* Heat asked of a spa in the low range whose flow has failed.
C8_Witness ==
    /\ Handled(0, "setTargetHeatingState", "HEAT")
    /\ flowState = FLOW_FAILED
    /\ ~tempRangeIsHigh
    /\ Rejected(log)

\* C9: getTargetHeatingState() is Off whenever the flow has Failed, whatever
\* the range; Heat when the flow is Good and the range high; Cool when the
\* flow is Good and the range low.
C9_TargetHeatingState ==
    /\ flowState = FLOW_FAILED => heatingStateNow = "OFF"
    /\ (flowState = FLOW_GOOD /\ tempRangeIsHigh) => heatingStateNow = "HEAT"
    /\ (flowState = FLOW_GOOD /\ ~tempRangeIsHigh) => heatingStateNow = "COOL"
    /\ req.op = "getTargetHeatingState"
         => Len(log) = 1 /\ log[1].value = heatingStateNow

\* Off is reported for a spa in the high range whose flow has failed.
C9_Witness ==
    /\ req.op = "getTargetHeatingState"
    /\ flowState = FLOW_FAILED
    /\ tempRangeIsHigh
    /\ log[1].value = "OFF"

\* C10: clamp and reject.  setTargetTemperature(t) in the high range with
\* t < 26.5 publishes 26.5 to TargetTemperature, answers with an error and
\* leaves the spa's target temperature as it is; in the low range with
\* t > 36.0 it publishes 36.0, answers with an error and leaves it as it is.
C10_ClampAndReject ==
    [][\A t \in TempRequests :
         Handles(0, "setTargetTemperature", t)
           => /\ (tempRangeIsHigh /\ t < 265)
                   => /\ Rejected(log')
                      /\ Published(log') = <<[ev |-> "updateValue", value |-> 265]>>
                      /\ SpaWrites(log') = <<>>
                      /\ targetTemp' = targetTemp
              /\ (~tempRangeIsHigh /\ t > 360)
                   => /\ Rejected(log')
                      /\ Published(log') = <<[ev |-> "updateValue", value |-> 360]>>
                      /\ SpaWrites(log') = <<>>
                      /\ targetTemp' = targetTemp
      ]_vars

\* 20.0 asked of a spa in the high range: 26.5 is published, 38.0 is kept.
C10_Witness ==
    /\ Handled(0, "setTargetTemperature", 200)
    /\ tempRangeIsHigh
    /\ targetTemp = 380
    /\ Rejected(log)
    /\ log[1] = [ev |-> "updateValue", value |-> 265]

targetTemperatureNow == Returned(getTargetTemperature(Cur))

\* The temperatures the spa allows in each range.
InModeBounds(high, t) == IF high THEN 265 <= t /\ t <= 400
                                 ELSE 100 <= t /\ t <= 360

\* C11: in-range acceptance.  setTargetTemperature(t) with t on the 0.5 grid
\* inside the bounds of the current range succeeds, writes exactly t to the
\* spa, and getTargetTemperature() right after returns t.
C11_InRangeAccepted ==
    [][(req'.op = "setTargetTemperature" /\ InModeBounds(tempRangeIsHigh, req'.value))
         => /\ log' = <<[ev |-> "setTargetTemperature", value |-> req'.value],
                        [ev |-> "callback", err |-> "null", value |-> "none"]>>
            /\ targetTemp' = req'.value
            /\ targetTemperatureNow' = req'.value
      ]_vars

\* 26.5, the lower bound itself, is accepted in the high range.
C11_Witness ==
    /\ Handled(0, "setTargetTemperature", 265)
    /\ tempRangeIsHigh
    /\ targetTemp = 265
    /\ ~Rejected(log)

\* C12: republish after a range change.  A setHeatingState that succeeds
\* writes the range to the spa, then publishes to TargetTemperature the
\* target temperature the spa holds after that write, then calls back.
C12_RepublishAfterModeChange ==
    (req.op = "setTargetHeatingState" /\ ~Rejected(log))
      => /\ Len(log) = 4
         /\ log[1] = [ev |-> "setTempRangeIsHigh", value |-> (req.value = "HEAT")]
         /\ log[2].ev = "setProps"
         /\ log[3] = [ev |-> "updateValue", value |-> targetTemp]
         /\ log[4] = [ev |-> "callback", err |-> "null", value |-> "none"]
         /\ tempRangeIsHigh = (req.value = "HEAT")

\* Cool has put the spa in the low range, where it holds 20.0, a temperature
\* below the high range: 20.0 is what was published.
C12_Witness ==
    /\ Handled(0, "setTargetHeatingState", "COOL")
    /\ ~tempRangeIsHigh
    /\ targetTemp = 200
    /\ log[3] = [ev |-> "updateValue", value |-> 200]

\* C13: the advertised bounds are constant.  After construction and after
\* every request the props of TargetTemperature are min 10.0, max 40.0, step
\* 0.5, and every setProps sets just these.
C13_AdvertisedBoundsConstant ==
    LET broadest == [minValue |-> 100, maxValue |-> 400, minStep |-> 5]
    IN  /\ props = broadest
        /\ \A i \in 1..Len(log) : log[i].ev = "setProps" => log[i].value = broadest

\* A switch to the low range has set the props again, to the same bounds.
C13_Witness ==
    /\ Handled(0, "setTargetHeatingState", "COOL")
    /\ ~tempRangeIsHigh
    /\ Len(log) = 4 /\ log[2].ev = "setProps"
    /\ props.maxValue = 400

\* What setTargetTemperature wrote to the spa lies within the range's bounds,
\* and a request outside them was rejected with the nearest bound published.
LegalWrites ==
    /\ \A i \in 1..Len(log) :
         log[i].ev = "setTargetTemperature"
           => InModeBounds(tempRangeIsHigh, log[i].value)
    /\ ~InModeBounds(tempRangeIsHigh, req.value)
         => /\ Rejected(log)
            /\ \E b \in {100, 265, 360, 400} :
                 /\ InModeBounds(tempRangeIsHigh, b)
                 /\ \A t \in TempRequests :
                      InModeBounds(tempRangeIsHigh, t)
                        => (t - req.value) * (t - req.value)
                             >= (b - req.value) * (b - req.value)
                 /\ Published(log) = <<[ev |-> "updateValue", value |-> b]>>

\* C14 as claimed: two-sided legality.  Every request outside the bounds of
\* the current range, inside the advertised 10.0..40.0 or not, is rejected
\* with the nearest bound published, so every temperature written to the spa
\* lies within the bounds of the range.
C14_TwoSidedLegality ==
    req.op = "setTargetTemperature" => LegalWrites

\* C14 as the code has it: the same for the requests inside the advertised
\* 10.0..40.0; a request above 40.0 in the high range or below 10.0 in the
\* low range is written to the spa as it is.
C14_LegalityWithinAdvertised ==
    req.op = "setTargetTemperature"
      => /\ (100 <= req.value /\ req.value <= 400) => LegalWrites
         /\ ((tempRangeIsHigh /\ req.value > 400) \/ (~tempRangeIsHigh /\ req.value < 100))
              => /\ ~Rejected(log)
                 /\ targetTemp = req.value

\* 36.5 asked in the low range: rejected, 36.0 published.
C14_Witness ==
    /\ Handled(0, "setTargetTemperature", 365)
    /\ ~tempRangeIsHigh
    /\ Rejected(log)
    /\ Published(log) = <<[ev |-> "updateValue", value |-> 360]>>

\* C15 as claimed: the range is frozen while the flow has Failed.  No
\* setHeatingState request, Off, Heat or Cool, changes the spa's range.
C15_ModeFrozenUnderFailure ==
    [][(req'.op = "setTargetHeatingState" /\ flowState = FLOW_FAILED)
         => tempRangeIsHigh' = tempRangeIsHigh
      ]_vars

\* C15 as the code has it: while the flow has Failed, Heat and Cool leave the
\* spa's range as it is; Off is accepted and puts the spa in the low range.
C15_OnlyOffChangesModeUnderFailure ==
    [][(req'.op = "setTargetHeatingState" /\ flowState = FLOW_FAILED)
         => IF req'.value = "OFF"
            THEN ~Rejected(log') /\ tempRangeIsHigh' = FALSE
            ELSE Rejected(log') /\ tempRangeIsHigh' = tempRangeIsHigh
      ]_vars

\* Off asked of a spa whose flow has failed: it is now in the low range.
C15_Witness ==
    /\ Handled(0, "setTargetHeatingState", "OFF")
    /\ flowState = FLOW_FAILED
    /\ ~tempRangeIsHigh
    /\ log[1] = [ev |-> "setTempRangeIsHigh", value |-> FALSE]

\* C19: set/get agreement of the heating state.  After a setHeatingState(r)
\* that succeeded, with r Heat or Cool and the flow Good or r Off and the
\* flow Failed, getTargetHeatingState() returns r.
C19_HeatingStateSetGet ==
    (/\ req.op = "setTargetHeatingState" /\ ~Rejected(log)
     /\ \/ req.value \in {"HEAT", "COOL"} /\ flowState = FLOW_GOOD
        \/ req.value = "OFF" /\ flowState = FLOW_FAILED)
      => heatingStateNow = req.value

\* Cool asked with a good flow: Cool is reported.
C19_Witness ==
    /\ Handled(0, "setTargetHeatingState", "COOL")
    /\ flowState = FLOW_GOOD
    /\ ~Rejected(log)
    /\ heatingStateNow = "COOL"

----------------------------------------------------------------------------
(* Properties of all accessories together, under Spec *)

PumpOps == {"setOn", "getOn", "setRotationSpeed", "getRotationSpeed"}
ThermostatOps == {"setTargetHeatingState", "getTargetHeatingState",
                  "setTargetTemperature", "getTargetTemperature"}

\* C16: every pump or thermostat get/set handler, on every branch, calls its
\* callback exactly once, with an error or with a success result and never
\* both, and writes nothing to the spa after an error callback.
C16_ExactlyOneCallback ==
    req.op \in PumpOps \cup ThermostatOps =>
        LET cbs == Callbacks([log |-> log])
        IN  /\ Len(cbs) = 1
            /\ cbs[1].err # "null" => cbs[1].value = "none"
            /\ \A i \in 1..Len(log), j \in 1..Len(log) :
                   (i < j /\ log[i].ev = "callback" /\ log[i].err # "null")
                       => /\ log[j].ev # "callback"
                          /\ Len(SpaWrites(<<log[j]>>)) = 0

\* A rejection branch taken after a pump accessory has written to the spa:
\* an out-of-range target was published back and refused.
C16_Witness ==
    /\ req.op = "setTargetTemperature"
    /\ Rejected(log)
    /\ Len(log) = 2
    /\ log[1].ev = "updateValue"
    /\ \E c \in Pumps : lastWritten[c] # "none"

\* C17: a handler of the pump accessory of pump i leaves the spa's levels of
\* the other pumps, the other accessories' lastSpeed and the thermostat's
\* state (range, target temperature, flow, advertised props) as they were,
\* and writes to no pump but i, whatever the order of the requests to the
\* three pump accessories and the thermostat.
C17_PumpIsolation ==
    [][\A c \in Pumps :
          (req'.ctrl = c /\ req'.op \in PumpOps) =>
              /\ \A n \in SpaPumps \ {pumpNumber[c]} : pump'[n] = pump[n]
              /\ \A d \in Pumps \ {c} : lastSpeed'[d] = lastSpeed[d]
              /\ tempRangeIsHigh' = tempRangeIsHigh
              /\ targetTemp' = targetTemp
              /\ flowState' = flowState
              /\ props' = props
              /\ \A i \in 1..Len(log') :
                     /\ log'[i].ev = "set_pump" => log'[i].n = pumpNumber[c]
                     /\ log'[i].ev \notin {"setTempRangeIsHigh",
                                           "setTargetTemperature",
                                           "updateValue", "setProps"}]_vars

\* Accessory 2 has just turned pump 2 on at High while pumps 1 and 3 hold the
\* Low their own accessories wrote and remember.
C17_Witness ==
    /\ Handled(2, "setOn", TRUE)
    /\ pump[2] = "High"
    /\ pump[1] = "Low" /\ lastWritten[1] = "Low" /\ lastSpeed[1] = 1
    /\ pump[3] = "Low" /\ lastWritten[3] = "Low" /\ lastSpeed[3] = 1

====
